---- MODULE Spec2Model ----
(***************************************************************************)
(* State-machine model of the GoFile Discord Embedder (src/index.js):      *)
(* the short link store, the video start cache and the /v streaming proxy. *)
(*                                                                         *)
(* A JS Map is a sequence of records with a key field k, in the Map's      *)
(* iteration (insertion) order.  A URL is a record of its host labels and  *)
(* its path segments.  A Range header "bytes=<s>-<e>" is a record of its   *)
(* two parts; a part is a number, the empty string or non-numeric text.    *)
(***************************************************************************)
EXTENDS Integers, Sequences, FiniteSets, Bags, TLC

(***************************************************************************)
(* CONFIG (src/index.js 16-21), scaled down so that capacity and expiry    *)
(* are reached within the model's horizon.  Sizes are in bytes, times in   *)
(* clock ticks.                                                            *)
(***************************************************************************)
CACHE_CHUNK == 2
MAX_CACHE == 2
CACHE_TTL == 1
MAX_LINKS == 1
LINK_TTL == 2

(* Bounds of the model. *)
MaxTime == 3
MaxPrefetch == 2
MaxLive == 1
MaxPos == 3
MaxChunk == 3

(***************************************************************************)
(* Values of the environment: URLs the content API can return, account     *)
(* tokens, short ids the random generator can produce.                     *)
(***************************************************************************)
NoUrl == [host |-> <<>>, path |-> <<>>]
UrlA == [host |-> <<"store1", "gofile", "io">>,
         path |-> <<"download", "web", "a1", "v.mp4">>]
UrlB == [host |-> <<"store2", "gofile", "io">>, path |-> <<"d", "b2.mp4">>]
UrlC == [host |-> <<"cold", "gofile", "io">>,
         path |-> <<"x", "download", "web", "c3", "w.mp4">>]
UrlEvil == [host |-> <<"evil", "com">>,
            path |-> <<"download", "web", "a1", "v.mp4">>]
VideoA == [videoUrl |-> UrlA, token |-> "t1"]
VideoB == [videoUrl |-> UrlB, token |-> "t2"]
VideoC == [videoUrl |-> UrlC, token |-> "t1"]
VideoEvil == [videoUrl |-> UrlEvil, token |-> "t2"]
Ids == {"id1", "id2", "id3"}
HexIds == {"a1", "c3"}

(* What JS calls null, the empty string and NaN, where a number can stand. *)
Null == -10
EmptyPart == -11
NaN == -12
NoRange == [s |-> Null, e |-> Null]
RangeParts == (0..MaxPos) \cup {EmptyPart, NaN}
RangeHeaders == [s : RangeParts, e : RangeParts]

(***************************************************************************)
(* The origin: the bytes behind each URL.                                  *)
(***************************************************************************)
Resource(url) ==
  CASE url = UrlA -> <<10, 11, 12>>
    [] url = UrlB -> <<20>>
    [] url = UrlC -> <<30, 31>>
    [] url = UrlEvil -> <<66, 67, 68>>
    [] OTHER -> <<>>

Min(a, b) == IF a < b THEN a ELSE b
Max(a, b) == IF a > b THEN a ELSE b

(***************************************************************************)
(* JS Map: has, get, set (an existing key keeps its place), delete.        *)
(***************************************************************************)
MapHas(m, key) == \E i \in 1..Len(m) : m[i].k = key
MapIndex(m, key) == CHOOSE i \in 1..Len(m) : m[i].k = key
MapGet(m, key) == m[MapIndex(m, key)]
MapDelete(m, key) == SelectSeq(m, LAMBDA x : x.k # key)
(* A set that drops every other entry. *)
MapSetAlone(m, entry) == SubSeq(Append(m, entry), Len(m) + 1, Len(m) + 1)

(* A set that moves an existing key to the end of the order. *)
MapSetToEnd(m, entry) == Append(MapDelete(m, entry.k), entry)

MapSet(m, entry) ==
  IF MapHas(m, entry.k)
    THEN [m EXCEPT ![MapIndex(m, entry.k)] = entry]
    ELSE Append(m, entry)

(* A subarray that leaves out its last byte. *)
SubarrayShort(buf, begin, end) ==
  LET b == IF begin < 0 THEN 0 ELSE IF begin > Len(buf) THEN Len(buf) ELSE begin
      e == IF end < 0 THEN 0 ELSE IF end > Len(buf) THEN Len(buf) ELSE end
  IN IF e - 1 <= b THEN <<>> ELSE SubSeq(buf, b + 1, e - 1)

(* Buffer.subarray(begin, end): indices clamp to the buffer, negative ones
   count from its end, and an end before the begin gives the empty view. *)
Clamp(n, len) == IF n < 0 THEN Max(len + n, 0) ELSE Min(n, len)
Subarray(buf, begin, end) ==
  LET b == Clamp(begin, Len(buf))
      e == Clamp(end, Len(buf))
  IN IF e <= b THEN <<>> ELSE SubSeq(buf, b + 1, e)

(***************************************************************************)
(* SHORT LINK STORE                                                        *)
(***************************************************************************)
SweepLinks(store, t) == SelectSeq(store, LAMBDA x : ~(t - x.createdAt > LINK_TTL))
EvictLinks(store) ==
  IF Len(store) > MAX_LINKS
    THEN SubSeq(store, Len(store) - MAX_LINKS + 1, Len(store))
    ELSE store
pruneLinks(store, t) == EvictLinks(SweepLinks(store, t))

(***************************************************************************)
(* VIDEO START CACHE                                                       *)
(***************************************************************************)
(* url.match(/\/download\/web\/([a-f0-9-]+)\//): the first place in the path
   where download/web/<hex id>/ occurs, else the URL itself. *)
KeyMatches(url) ==
  {i \in 1..Len(url.path) :
     /\ i + 3 <= Len(url.path)
     /\ url.path[i] = "download"
     /\ url.path[i + 1] = "web"
     /\ url.path[i + 2] \in HexIds}
cacheKey(url) ==
  IF KeyMatches(url) # {}
    THEN LET i == CHOOSE j \in KeyMatches(url) : \A l \in KeyMatches(url) : j <= l
         IN [m |-> url.path[i + 2], url |-> NoUrl]
    ELSE [m |-> "", url |-> url]

(* A sweep that stops at the first entry still in its lifetime. *)
SweepCachePrefix(cache, t) ==
  LET fresh == {i \in 1..Len(cache) : ~(t - cache[i].createdAt > CACHE_TTL)}
  IN IF fresh = {} THEN <<>>
     ELSE SubSeq(cache, CHOOSE i \in fresh : \A j \in fresh : i <= j, Len(cache))

SweepCache(cache, t) == SelectSeq(cache, LAMBDA x : ~(t - x.createdAt > CACHE_TTL))
EvictCache(cache) ==
  IF Len(cache) > MAX_CACHE
    THEN SubSeq(cache, Len(cache) - MAX_CACHE + 1, Len(cache))
    ELSE cache
pruneCache(cache, t) == EvictCache(SweepCache(cache, t))

(* A check that accepts every URL that has a host. *)
isGoFileAnyHost(url) == Len(url.host) >= 1

(* new URL(url).hostname.endsWith('.gofile.io'); an unparsable URL (no host)
   makes new URL throw. *)
isGoFile(url) ==
  LET h == url.host
  IN /\ Len(h) >= 3
     /\ h[Len(h) - 1] = "gofile"
     /\ h[Len(h)] = "io"

(***************************************************************************)
(* The origin's answer to a read of url with the given Range header.       *)
(* mode "ranged": the origin honours a well-formed range (206 for s-e, s-  *)
(* and the suffix form -n, 416 past the end) and sends the whole resource  *)
(* otherwise; "full": it ignores the header; "status": it answers 404;     *)
(* "down": no response at all (a network error, or the caller's timeout);  *)
(***************************************************************************)
NoCRange == [s |-> Null, e |-> Null, total |-> Null]

(* Which of Content-Length and Accept-Ranges the origin sends with a 2xx. *)
Headers == [clen : BOOLEAN, arange : BOOLEAN]
TypicalHeaders == [clen |-> TRUE, arange |-> TRUE]
OriginModes == {"ranged", "full", "status", "down"}

(***************************************************************************)
(* The environments explored.  Each behaviour runs in one of them: the     *)
(* ids the generator draws from, the videos the content API returns and    *)
(* the ways it fails, how the origin answers, the Range headers clients    *)
(* send, how long the clock runs, how many prefetches and how many         *)
(* upstream reads can be awaiting the origin at once, and the sizes of the *)
(* chunks a piped body arrives in (the last chunk is what remains).        *)
(*   links:  every id, every failure of /generate, the origin down, no /v  *)
(*           request: the link store is exercised;                         *)
(*   cache:  one id, three cache keys, the origin up: the cache is         *)
(*           exercised;                                                    *)
(*   proxy:  one id, every Range header, an origin that honours or ignores *)
(*           ranges, a trusted and an untrusted URL with one cache key;    *)
(*   shared: two ids for one URL;                                          *)
(*   stream: two /v requests at a time, with the clock running, an origin  *)
(*           that answers, refuses or is down, bodies arriving byte by     *)
(*           byte;                                                         *)
(*   twins:  two ids for one untrusted URL.                                *)
(***************************************************************************)
EnvLinks == [name |-> "links", ids |-> Ids, videos |-> {VideoA, VideoB},
             failures |-> {400, 404, 500, 502}, modes |-> {"down"}, ranges |-> {},
             horizon |-> MaxTime, room |-> 1, lives |-> 1, headers |-> {TypicalHeaders},
             chunks |-> {MaxChunk}]
EnvCache == [name |-> "cache", ids |-> {"id1"}, videos |-> {VideoA, VideoB, VideoC},
             failures |-> {}, modes |-> {"ranged", "down"},
             ranges |-> {},
             horizon |-> CACHE_TTL + 1, room |-> MaxPrefetch, lives |-> 1,
             headers |-> {TypicalHeaders},
             chunks |-> {MaxChunk}]
EnvProxy == [name |-> "proxy", ids |-> {"id1"}, videos |-> {VideoA, VideoEvil},
             failures |-> {}, modes |-> {"ranged", "full"},
             ranges |-> RangeHeaders \cup {NoRange},
             horizon |-> 0, room |-> 1, lives |-> 1, headers |-> {TypicalHeaders},
             chunks |-> {MaxChunk}]
EnvShared == [name |-> "shared", ids |-> {"id1", "id2"}, videos |-> {VideoA},
              failures |-> {}, modes |-> {"ranged", "down"},
              ranges |-> {NoRange, [s |-> 0, e |-> 1], [s |-> 1, e |-> EmptyPart]},
              horizon |-> 0, room |-> MaxPrefetch, lives |-> MaxLive, headers |-> {TypicalHeaders},
             chunks |-> {MaxChunk}]
EnvStream == [name |-> "stream", ids |-> {"id1"}, videos |-> {VideoA},
              failures |-> {502}, modes |-> OriginModes \ {"full"},
              ranges |-> {[s |-> 1, e |-> 2]},
              horizon |-> 1, room |-> 1, lives |-> 2, headers |-> Headers,
              chunks |-> {1}]
EnvTwins == [name |-> "twins", ids |-> {"id1", "id2"}, videos |-> {VideoEvil},
             failures |-> {}, modes |-> {"ranged"}, ranges |-> {[s |-> 0, e |-> 1]},
             horizon |-> 0, room |-> 1, lives |-> 1, headers |-> {TypicalHeaders},
             chunks |-> {MaxChunk}]
Environments == {EnvLinks, EnvCache, EnvProxy, EnvShared, EnvStream, EnvTwins}
ContentTypeOf(url) == IF url = UrlB THEN "" ELSE "video/webm"
OriginRead(url, range, mode) ==
  LET res == Resource(url)
      n == Len(res)
      whole == [status |-> 200, body |-> res, crange |-> NoCRange,
                ctype |-> ContentTypeOf(url)]
      last == IF range.e >= 0 THEN Min(range.e, n - 1) ELSE n - 1
  IN CASE mode = "down" -> [status |-> 0, body |-> <<>>, crange |-> NoCRange, ctype |-> ""]
       [] mode = "status" -> [status |-> 404, body |-> <<>>, crange |-> NoCRange, ctype |-> ""]
       [] mode = "full" -> whole
       [] OTHER ->
            IF range.s = EmptyPart /\ range.e > 0 /\ n > 0
              THEN [status |-> 206, body |-> SubSeq(res, Max(n - range.e, 0) + 1, n),
                    crange |-> [s |-> Max(n - range.e, 0), e |-> n - 1, total |-> n],
                    ctype |-> ContentTypeOf(url)]
            ELSE IF range.s < 0 \/ (last < range.s /\ range.s < n) THEN whole
            ELSE IF range.s >= n
              THEN [status |-> 416, body |-> <<>>, ctype |-> "",
                    crange |-> [s |-> Null, e |-> Null, total |-> n]]
              ELSE [status |-> 206, body |-> SubSeq(res, range.s + 1, last + 1),
                    crange |-> [s |-> range.s, e |-> last, total |-> n],
                    ctype |-> ContentTypeOf(url)]

(* An axios that resolves whatever the outcome of the read. *)
AxiosOkAny(r) == r.status >= 0

(* The answer with its Content-Length and Accept-Ranges headers: Null and ""
   where the origin sends none. *)
Upstream(r, h) ==
  [status |-> r.status, body |-> r.body, crange |-> r.crange, ctype |-> r.ctype,
   clen |-> IF h.clen THEN Len(r.body) ELSE Null,
   arange |-> IF h.arange THEN "bytes" ELSE ""]

(* axios resolves on a 2xx status and rejects on anything else. *)
AxiosOk(r) == r.status >= 200 /\ r.status < 300

VARIABLES
  env,         \* the environment of this behaviour
  now,         \* Date.now(), in ticks
  linkStore,   \* Map<id, {videoUrl, token, createdAt}>
  videoCache,  \* Map<key, {buffer, contentType, totalSize, createdAt}>
  prefetches,  \* bag of prefetch() calls awaiting the origin
  live,        \* bag of /v handlers awaiting their upstream read
  gone,        \* those of them whose client has disconnected
  streams,     \* bag of upstream streams that are open and piped to a response
  op,          \* the handler or callback that ran last
  req,         \* the HTTP request it handled
  resp,        \* the response it gave
  reqs,        \* the origin requests it issued
  evicted      \* the entries its sweep deleted

vars == <<env, now, linkStore, videoCache, prefetches, live, gone, streams,
          op, req, resp, reqs, evicted>>

NoReq == [id |-> "", range |-> NoRange]
NoResp == [status |-> 0, via |-> "none", body |-> <<>>, clen |-> Null,
           crange |-> NoCRange, ctype |-> "", arange |-> "", cors |-> FALSE,
           id |-> "", upstream |-> 0, text |-> "", conn |-> "open"]
NoEvicted == [store |-> "none", exp |-> <<>>, cap |-> <<>>]
(* A reply that says 200 whatever the handler decided. *)
ReplyOk(status) == [NoResp EXCEPT !.status = 200 + 0 * status, !.conn = "ended"]

Reply(status) == [NoResp EXCEPT !.status = status, !.conn = "ended"]

Init ==
  /\ env \in Environments
  /\ now = 0
  /\ linkStore = <<>>
  /\ videoCache = <<>>
  /\ prefetches = EmptyBag
  /\ live = EmptyBag
  /\ gone = EmptyBag
  /\ streams = EmptyBag
  /\ op = "init"
  /\ req = NoReq
  /\ resp = NoResp
  /\ reqs = {}
  /\ evicted = NoEvicted

(* The clock advances between handlers. *)
Tick ==
  /\ now < env.horizon
  /\ now' = now + 1
  /\ op' = "tick"
  /\ req' = NoReq /\ resp' = NoResp /\ reqs' = {} /\ evicted' = NoEvicted
  /\ UNCHANGED <<env, linkStore, videoCache, prefetches, live, gone, streams>>

(***************************************************************************)
(* storeLink(data) with the id createShortId() drew: the store after it.   *)
(* firstAt is a history field, not program state: the time at which the    *)
(* key entered the Map and took its place in the iteration order.          *)
(***************************************************************************)
LinkEntry(store, id, data, t) ==
  [k |-> id, videoUrl |-> data.videoUrl, token |-> data.token, createdAt |-> t,
   firstAt |-> IF MapHas(store, id) THEN MapGet(store, id).firstAt ELSE t]
storeLink(store, id, data, t) ==
  LET pruned == pruneLinks(store, t)
  IN MapSet(pruned, LinkEntry(pruned, id, data, t))

(* What a sweep deleted: for age, then for capacity. *)
Swept(store, swept, pruned, name) ==
  [store |-> name,
   exp |-> SelectSeq(store, LAMBDA x : \A i \in 1..Len(swept) : swept[i] # x),
   cap |-> SubSeq(swept, 1, Len(swept) - Len(pruned))]

(***************************************************************************)
(* prefetch(url, token) up to its await: nothing when the key is in the    *)
(* cache, else one ranged GET is issued.                                   *)
(***************************************************************************)
PrefetchRange == [s |-> 0, e |-> CACHE_CHUNK - 1]
Cookie(token) == IF token # "" THEN token ELSE ""
(* A prefetch that does not look in the cache first. *)
PrefetchStartsAlways(cache, url) == cache = cache /\ url = url

PrefetchStarts(cache, url) == ~MapHas(cache, cacheKey(url))
PrefetchRequest(url, token) ==
  [kind |-> "prefetch", url |-> url, range |-> PrefetchRange, cookie |-> Cookie(token)]
Room(url) == PrefetchStarts(videoCache, url) => BagCardinality(prefetches) < env.room
prefetch(url, token) ==
  IF PrefetchStarts(videoCache, url)
    THEN /\ prefetches' = prefetches (+) SetToBag({[url |-> url, token |-> token]})
         /\ reqs' = {PrefetchRequest(url, token)}
    ELSE /\ prefetches' = prefetches
         /\ reqs' = {}

(***************************************************************************)
(* POST /generate, from the point where the API has answered.              *)
(***************************************************************************)
Generate(video, id) ==
  /\ Room(video.videoUrl)
  /\ linkStore' = storeLink(linkStore, id, video, now)
  /\ evicted' = Swept(linkStore, SweepLinks(linkStore, now), pruneLinks(linkStore, now), "links")
  /\ prefetch(video.videoUrl, video.token)
  /\ op' = "generate"
  /\ req' = NoReq
  /\ resp' = [Reply(200) EXCEPT !.id = id]
  /\ UNCHANGED <<env, now, videoCache, live, gone, streams>>

(* The early returns of /generate: bad input 400, no token 502, API error
   502, no video 404, a thrown call 500. *)
GenerateFails(status) ==
  /\ op' = "generate"
  /\ req' = NoReq
  /\ resp' = Reply(status)
  /\ reqs' = {}
  /\ evicted' = NoEvicted
  /\ UNCHANGED <<env, now, linkStore, videoCache, prefetches, live, gone, streams>>

(***************************************************************************)
(* prefetch() after its await: the origin answered the ranged GET.         *)
(***************************************************************************)
CacheEntry(cache, url, r, t) ==
  [k |-> cacheKey(url),
   buffer |-> r.body,
   contentType |-> IF r.ctype # "" THEN r.ctype ELSE "video/mp4",
   totalSize |-> r.crange.total,
   createdAt |-> t,
   src |-> url,
   firstAt |-> IF MapHas(cache, cacheKey(url))
                 THEN MapGet(cache, cacheKey(url)).firstAt ELSE t]
storeCache(cache, url, r, t) ==
  LET pruned == pruneCache(cache, t)
  IN MapSet(pruned, CacheEntry(pruned, url, r, t))

PrefetchDone(task, mode) ==
  /\ BagIn(task, prefetches)
  /\ prefetches' = prefetches (-) SetToBag({task})
  /\ LET r == OriginRead(task.url, PrefetchRange, mode)
     IN /\ IF AxiosOk(r)
             THEN /\ videoCache' = storeCache(videoCache, task.url, r, now)
                  /\ evicted' = Swept(videoCache, SweepCache(videoCache, now),
                                      pruneCache(videoCache, now), "cache")
                  /\ op' = "prefetched"
             ELSE /\ videoCache' = videoCache
                  /\ evicted' = NoEvicted
                  /\ op' = "prefetch failed"
       /\ resp' = [NoResp EXCEPT !.upstream = r.status]
  /\ req' = NoReq /\ reqs' = {}
  /\ UNCHANGED <<env, now, linkStore, live, gone, streams>>

(***************************************************************************)
(* GET /e/:id                                                              *)
(***************************************************************************)
Embed(id) ==
  /\ op' = "embed"
  /\ req' = [id |-> id, range |-> NoRange]
  /\ evicted' = NoEvicted
  /\ IF ~MapHas(linkStore, id)
       THEN /\ resp' = Reply(404)
            /\ reqs' = {}
            /\ prefetches' = prefetches
       ELSE LET entry == MapGet(linkStore, id)
            IN /\ resp' = [Reply(200) EXCEPT !.id = id]
               /\ IF isGoFile(entry.videoUrl)
                    THEN /\ Room(entry.videoUrl)
                         /\ prefetch(entry.videoUrl, entry.token)
                    ELSE /\ reqs' = {}
                         /\ prefetches' = prefetches
  /\ UNCHANGED <<env, now, linkStore, videoCache, live, gone, streams>>

(***************************************************************************)
(* ROUTES - STREAMING PROXY                                                *)
(***************************************************************************)
(* A middleware that sets no header. *)
CorsNone(r) == [r EXCEPT !.cors = FALSE]

Cors(r) == [r EXCEPT !.cors = TRUE]

(* app.use('/v') for an OPTIONS request. *)
Options ==
  /\ op' = "options"
  /\ req' = NoReq
  /\ resp' = Cors(Reply(204))
  /\ reqs' = {}
  /\ evicted' = NoEvicted
  /\ UNCHANGED <<env, now, linkStore, videoCache, prefetches, live, gone, streams>>

(* JS comparison: false whenever an operand is NaN. *)
Lt(a, b) == a # NaN /\ b # NaN /\ a < b

(* parseInt(parts[0], 10) || 0  and  parts[1] ? parseInt(parts[1], 10) : null *)
ParseStart(range) == IF range.s < 0 THEN 0 ELSE range.s
ParseEnd(range) == IF range.e = EmptyPart THEN Null ELSE range.e

(* The end the cache path serves to. *)
CacheEnd(cached, rEnd) == IF rEnd # Null THEN rEnd ELSE Len(cached.buffer) - 1
(* A bounds check that looks at the start only. *)
CacheServesStartOnly(cached, rStart, end) == Lt(rStart, Len(cached.buffer))

CacheServes(cached, rStart, end) ==
  Lt(rStart, Len(cached.buffer)) /\ Lt(end, Len(cached.buffer))
(* A cache path that does not ask whether a Range header was sent. *)
CacheHitAnyRequest(cache, url, range) ==
  /\ MapHas(cache, cacheKey(url))
  /\ LET cached == MapGet(cache, cacheKey(url))
     IN CacheServes(cached, ParseStart(range), CacheEnd(cached, ParseEnd(range)))

CacheHit(cache, url, range) ==
  /\ MapHas(cache, cacheKey(url))
  /\ range # NoRange
  /\ LET cached == MapGet(cache, cacheKey(url))
     IN CacheServes(cached, ParseStart(range), CacheEnd(cached, ParseEnd(range)))
CacheReply(cached, rStart, end) ==
  LET slice == Subarray(cached.buffer, rStart, end + 1)
  IN [NoResp EXCEPT
        !.status = 206,
        !.via = "cache",
        !.body = slice,
        !.ctype = cached.contentType,
        !.clen = Len(slice),
        !.arange = "bytes",
        !.conn = "ended",
        !.crange = IF cached.totalSize # Null /\ cached.totalSize # 0
                     THEN [s |-> rStart, e |-> end, total |-> cached.totalSize]
                     ELSE NoCRange]

LiveRequest(entry, range) ==
  [kind |-> "live", url |-> entry.videoUrl, range |-> range, cookie |-> Cookie(entry.token)]

(* GET /v/:filename?id= up to its response or its await. *)
Play(id, range) ==
  /\ op' = "play"
  /\ req' = [id |-> id, range |-> range]
  /\ evicted' = NoEvicted
  /\ IF ~MapHas(linkStore, id)
       THEN /\ resp' = Cors(Reply(404))
            /\ reqs' = {}
            /\ live' = live
     ELSE IF ~isGoFile(MapGet(linkStore, id).videoUrl)
       THEN /\ resp' = Cors(Reply(403))
            /\ reqs' = {}
            /\ live' = live
     ELSE LET entry == MapGet(linkStore, id)
          IN IF CacheHit(videoCache, entry.videoUrl, range)
               THEN LET cached == MapGet(videoCache, cacheKey(entry.videoUrl))
                    IN /\ resp' = Cors(CacheReply(cached, ParseStart(range),
                                                  CacheEnd(cached, ParseEnd(range))))
                       /\ reqs' = {}
                       /\ live' = live
               ELSE /\ BagCardinality(live) + BagCardinality(streams) < env.lives
                    /\ resp' = Cors([NoResp EXCEPT !.via = "live"])
                    /\ reqs' = {LiveRequest(entry, range)}
                    /\ live' = live (+) SetToBag({LiveRequest(entry, range)})
  /\ UNCHANGED <<env, now, linkStore, videoCache, prefetches, gone, streams>>

(* A live path that answers 502 to every failure of the upstream read. *)
LiveReply502(r) ==
  IF r.status >= 200 /\ r.status < 300
    THEN [NoResp EXCEPT
            !.status = r.status, !.upstream = r.status, !.via = "live",
            !.body = r.body, !.ctype = r.ctype, !.clen = r.clen,
            !.crange = r.crange, !.arange = r.arange,
            !.conn = "ended"]
    ELSE [NoResp EXCEPT
            !.status = 502, !.upstream = r.status, !.via = "live",
            !.text = "Proxy error", !.conn = "ended"]

(* The live path's response: on a 2xx answer the upstream's status and, as
   far as it sent them, its Content-Type, Content-Length, Content-Range and
   Accept-Ranges headers, then its body; on a rejection the error. *)
LiveReply(r) ==
  IF AxiosOk(r)
    THEN [NoResp EXCEPT
            !.status = r.status,
            !.upstream = r.status,
            !.via = "live",
            !.body = r.body,
            !.ctype = r.ctype,
            !.clen = r.clen,
            !.crange = r.crange,
            !.arange = r.arange,
            !.conn = "ended"]
    ELSE [NoResp EXCEPT
            !.status = IF r.status # 0 THEN r.status ELSE 502,
            !.upstream = r.status,
            !.via = "live",
            !.text = "Proxy error",
            !.conn = "ended"]

(* The response while upstream.data is piped to it: the status and the
   headers are set, the body is still to come. *)
LiveHeaders(r) == [LiveReply(r) EXCEPT !.body = <<>>, !.conn = "open"]

(* An upstream stream at the point where line 476 has run.  client is "gone"
   when the request closed during the await of line 464: its 'close' event
   was emitted before the listener of line 476 was added.  sent counts the
   bytes of the body that pipe has written to res so far. *)
Stream(l, r, client) == [read |-> l, r |-> r, client |-> client, sent |-> 0]

(* The response of a piped stream as the client has it: the status and the
   headers, and the bytes written so far. *)
Delivered(s, conn) ==
  [LiveHeaders(s.r) EXCEPT !.body = SubSeq(s.r.body, 1, s.sent), !.conn = conn]

(* The handler of l whose client is here / is gone resumes after its await.
   On a 2xx answer it sets the status and the headers and pipes the stream:
   nothing is written yet, the body follows in later turns of the event
   loop.  On a rejection it answers the error. *)
LiveRespond(l, mode, h, client) ==
  /\ BagIn(l, live)
  /\ IF client = "gone"
       THEN /\ BagIn(l, gone)
            /\ gone' = gone (-) SetToBag({l})
       ELSE /\ CopiesIn(l, gone) < CopiesIn(l, live)
            /\ gone' = gone
  /\ live' = live (-) SetToBag({l})
  /\ op' = "live"
  /\ req' = NoReq
  /\ LET r == Upstream(OriginRead(l.url, l.range, mode), h)
     IN IF AxiosOk(r)
          THEN /\ resp' = Cors(LiveHeaders(r))
               /\ streams' = streams (+) SetToBag({Stream(l, r, client)})
          ELSE /\ resp' = Cors(LiveReply(r))
               /\ streams' = streams
  /\ reqs' = {}
  /\ evicted' = NoEvicted
  /\ UNCHANGED <<env, now, linkStore, videoCache, prefetches>>

(* The client disconnects while the handler awaits axios.get (line 464):
   no 'close' listener is registered yet, nothing runs. *)
ClientGone(l) ==
  /\ CopiesIn(l, gone) < CopiesIn(l, live)
  /\ gone' = gone (+) SetToBag({l})
  /\ op' = "client gone"
  /\ req' = NoReq /\ resp' = NoResp /\ reqs' = {} /\ evicted' = NoEvicted
  /\ UNCHANGED <<env, now, linkStore, videoCache, prefetches, live, streams>>

(* req.on('close', () => upstream.data.destroy()): the client disconnects
   while the stream is piped. *)
ClientClose(s) ==
  /\ BagIn(s, streams)
  /\ s.client = "here"
  /\ streams' = streams (-) SetToBag({s})
  /\ op' = "client close"
  /\ resp' = Cors(Delivered(s, "closed"))
  /\ req' = NoReq /\ reqs' = {} /\ evicted' = NoEvicted
  /\ UNCHANGED <<env, now, linkStore, videoCache, prefetches, live, gone>>

(* upstream.data.pipe(res), the 'data' listener of pipe: the next chunk, of
   at most size bytes, arrives in its own turn of the event loop and is
   written to res.  A write to the response of a client that is gone writes
   nothing and returns false, and pipe pauses the stream: no further chunk
   is read from it. *)
StreamData(s, size) ==
  /\ BagIn(s, streams)
  /\ s.client = "here"
  /\ s.sent < Len(s.r.body)
  /\ LET next == [s EXCEPT !.sent = Min(@ + size, Len(s.r.body))]
     IN /\ streams' = (streams (-) SetToBag({s})) (+) SetToBag({next})
        /\ resp' = Cors(Delivered(next, "open"))
  /\ op' = "stream data"
  /\ req' = NoReq /\ reqs' = {} /\ evicted' = NoEvicted
  /\ UNCHANGED <<env, now, linkStore, videoCache, prefetches, live, gone>>

(* The body of s arrives in one chunk: the end of the upstream stream is
   read together with its only chunk. *)
ArrivesWhole(s) == \E size \in env.chunks : size >= Len(s.r.body)

(* upstream.data.pipe(res), the 'end' listener of pipe: the upstream stream
   ends and pipe ends res.  For a client that is here every chunk has been
   written.  For a client that is gone the end is reached only when the body
   arrives whole (the stream is paused at its first chunk otherwise), and
   res, already destroyed, is ended with none of the body written. *)
StreamEnd(s) ==
  /\ BagIn(s, streams)
  /\ IF s.client = "here" THEN s.sent = Len(s.r.body) ELSE ArrivesWhole(s)
  /\ streams' = streams (-) SetToBag({s})
  /\ op' = "stream end"
  /\ resp' = Cors(Delivered(s, "ended"))
  /\ req' = NoReq /\ reqs' = {} /\ evicted' = NoEvicted
  /\ UNCHANGED <<env, now, linkStore, videoCache, prefetches, live, gone>>

(* upstream.data.on('error', () => { if (!res.writableEnded) res.destroy() }) *)
StreamError(s) ==
  /\ BagIn(s, streams)
  /\ streams' = streams (-) SetToBag({s})
  /\ op' = "stream error"
  /\ resp' = Cors(Delivered(s, "destroyed"))
  /\ req' = NoReq /\ reqs' = {} /\ evicted' = NoEvicted
  /\ UNCHANGED <<env, now, linkStore, videoCache, prefetches, live, gone>>

Next ==
  \/ Tick
  \/ \E video \in env.videos, id \in env.ids : Generate(video, id)
  \/ \E status \in env.failures : GenerateFails(status)
  \/ \E task \in BagToSet(prefetches), mode \in env.modes : PrefetchDone(task, mode)
  \/ \E id \in env.ids : Embed(id)
  \/ Options
  \/ \E id \in env.ids, range \in env.ranges : Play(id, range)
  \/ \E l \in BagToSet(live), mode \in env.modes, h \in env.headers,
        client \in {"here", "gone"} : LiveRespond(l, mode, h, client)
  \/ \E l \in BagToSet(live) : ClientGone(l)
  \/ \E s \in BagToSet(streams) : ClientClose(s)
  \/ \E s \in BagToSet(streams), size \in env.chunks : StreamData(s, size)
  \/ \E s \in BagToSet(streams) : StreamEnd(s)
  \/ \E s \in BagToSet(streams) : StreamError(s)

Spec == Init /\ [][Next]_vars

(***************************************************************************)
(* Progress.  The one timer the program sets is the timeout of the         *)
(* prefetch read (line 85): a prefetch that awaits the origin is sooner or *)
(* later completed by it, if by nothing else.  The calls of /generate and  *)
(* the upstream read of /v are given no timeout, and whether the origin    *)
(* ever answers is not for the program to say: no fairness is assumed of   *)
(* any other step.                                                         *)
(***************************************************************************)
InitStream == Init /\ env = EnvStream
PrefetchTimeout == \E task \in BagToSet(prefetches) : PrefetchDone(task, "down")
FairSpec == InitStream /\ [][Next]_vars /\ WF_vars(PrefetchTimeout)

(***************************************************************************)
(* PROPERTIES                                                              *)
(***************************************************************************)
(* The link and the cache entry the last /v request resolved to. *)
ReqLinked == MapHas(linkStore, req.id)
ReqEntry == MapGet(linkStore, req.id)
ReqCached == ReqLinked /\ MapHas(videoCache, cacheKey(ReqEntry.videoUrl))
ReqBuffer == MapGet(videoCache, cacheKey(ReqEntry.videoUrl)).buffer
ReqTrusted == ReqLinked /\ isGoFile(ReqEntry.videoUrl)

(* The response is 206 with exactly bytes [s, e] of buf, and no origin read. *)
ExactSlice(buf, s, e) ==
  /\ resp.status = 206
  /\ resp.via = "cache"
  /\ resp.clen = e - s + 1
  /\ Len(resp.body) = e - s + 1
  /\ \A i \in 0..(e - s) : resp.body[i + 1] = buf[s + i + 1]
  /\ reqs = {}

(* A Range header bytes=s-e with numbers s <= e inside the cached buffer. *)
InBounds ==
  /\ op = "play"
  /\ ReqCached
  /\ req.range.s >= 0 /\ req.range.e >= 0
  /\ req.range.s <= req.range.e
  /\ req.range.s < Len(ReqBuffer) /\ req.range.e < Len(ReqBuffer)

(* C1, as stated: every /v request with a Range header bytes=s-e, s <= e,
   for a link whose cache key has an entry holding both s and e, is answered
   206 with exactly bytes [s, e] of the cached buffer and Content-Length
   e - s + 1, with no origin request. *)
C1_AsStated == InBounds => ExactSlice(ReqBuffer, req.range.s, req.range.e)

(* C1, amended: the same, for a link whose URL passes the isGoFile check;
   a link that fails it is answered 403 whatever the cache holds. *)
C1_ExactSlice ==
  /\ (InBounds /\ ReqTrusted) => ExactSlice(ReqBuffer, req.range.s, req.range.e)
  /\ (InBounds /\ ~ReqTrusted) => (resp.status = 403 /\ resp.body = <<>> /\ reqs = {})

(* A two-byte slice from inside a three-byte buffer was served. *)
C1_Witness ==
  /\ InBounds /\ ReqTrusted
  /\ req.range = [s |-> 1, e |-> 2]
  /\ resp.body = <<11, 12>>

(* The start, or the end given or implied, is at or past the cached length.
   The implied end of an open-ended range is the cached buffer's last index. *)
PastCache ==
  /\ op = "play"
  /\ ReqCached
  /\ req.range # NoRange
  /\ \/ req.range.s >= Len(ReqBuffer)
     \/ req.range.e >= Len(ReqBuffer)
     \/ (req.range.e = EmptyPart /\ Len(ReqBuffer) - 1 >= Len(ReqBuffer))

(* The live path was taken: one upstream read with the client's own Range
   header and the link's token, and nothing from the cache. *)
WentLive ==
  /\ resp.via = "live"
  /\ resp.body = <<>>
  /\ reqs = {[kind |-> "live", url |-> ReqEntry.videoUrl, range |-> req.range,
              cookie |-> ReqEntry.token]}
  /\ \A r \in reqs : BagIn(r, live)

(* C2, as stated: every /v request whose start or end is at or past the
   cached buffer's length takes the live path. *)
C2_AsStated == PastCache => WentLive

(* C2, amended: such a request for a link that passes the isGoFile check
   takes the live path; no such request is answered from the cache. *)
C2_PastCacheGoesLive ==
  /\ (PastCache /\ ReqTrusted) => WentLive
  /\ PastCache => resp.via # "cache"

(* A request starting inside the cached buffer and ending past it went live. *)
C2_Witness ==
  /\ PastCache /\ ReqTrusted
  /\ req.range = [s |-> 0, e |-> 2]
  /\ Len(ReqBuffer) = 2
  /\ WentLive

(* C3, as stated: the cache path is taken only for a request with a Range
   header whose key has a cache entry; a request without a Range header, or
   with no entry for its key, is served by the live path, which forwards the
   Range header unchanged with the stored token and mirrors the origin's
   status. *)
C3_AsStated ==
  /\ (op = "play" /\ resp.via = "cache") => (req.range # NoRange /\ ReqCached)
  /\ (op = "play" /\ ReqLinked /\ (req.range = NoRange \/ ~ReqCached)) => WentLive
  /\ (op = "live" /\ resp.upstream # 0) => resp.status = resp.upstream

(* C3, amended: the same, where the live path is promised only to a link
   that passes the isGoFile check. *)
C3_CachePathOnlyWithRange ==
  /\ (op = "play" /\ resp.via = "cache") => (req.range # NoRange /\ ReqCached)
  /\ (op = "play" /\ ReqTrusted /\ (req.range = NoRange \/ ~ReqCached)) => WentLive
  /\ (op = "live" /\ resp.upstream # 0) => resp.status = resp.upstream

(* A request without a Range header went live although its key is cached. *)
C3_Witness ==
  /\ op = "play" /\ ReqTrusted /\ ReqCached
  /\ req.range = NoRange
  /\ WentLive

(* The entries of a Map. *)
Entries(m) == {m[i] : i \in 1..Len(m)}

(* C4, as stated: after any sequence of storeLink calls the link store
   holds at most MAX_LINKS entries. *)
C4_AtMostMaxLinks == Len(linkStore) <= MAX_LINKS

(* The store the last sweep ran on, as it is after the write that followed. *)
SweptStore ==
  CASE evicted.store = "links" -> linkStore
    [] evicted.store = "cache" -> videoCache
    [] OTHER -> <<>>

(* C5, as stated: an entry evicted for capacity was stored no later than
   every entry that survives, by the time each entry was written. *)
C5_AsStated ==
  \A x \in Entries(evicted.cap) : \A y \in Entries(SweptStore) :
    x.createdAt <= y.createdAt

(* C5, amended: an entry evicted for capacity has a key that entered the Map
   no later than the key of every entry that survives (an entry overwritten
   in place keeps its key's place, so it can go before entries written
   earlier than its last write); and /e, /v and OPTIONS requests leave both
   Maps as they are. *)
C5_OldestKeyFirst ==
  /\ [](\A x \in Entries(evicted.cap) : \A y \in Entries(SweptStore) :
          x.firstAt <= y.firstAt)
  /\ [][op' \in {"embed", "play", "live", "options"} =>
          (linkStore' = linkStore /\ videoCache' = videoCache)]_vars

(* An overwritten cache entry was evicted for capacity while an entry
   written before its last write stayed. *)
C5_Witness ==
  /\ evicted.store = "cache"
  /\ \E x \in Entries(evicted.cap) : \E y \in Entries(videoCache) :
       x.firstAt <= y.firstAt /\ x.createdAt > y.createdAt

(* C6, as stated: storeLink never returns an id that is in the store when
   it writes, and leaves the entries of the ids already there unchanged. *)
C6_FreshId ==
  [][(op' = "generate" /\ resp'.status = 200) =>
       /\ ~MapHas(pruneLinks(linkStore, now), resp'.id)
       /\ \A x \in Entries(pruneLinks(linkStore, now)) : x \in Entries(linkStore')]_vars

(* C7: right after the sweep of storeLink, and of a successful prefetch, no
   entry older than the store's TTL is in that store, and no entry the sweep
   deleted is. *)
C7_SweepLeavesNoExpired ==
  /\ (op = "generate" /\ resp.status = 200) =>
       /\ \A x \in Entries(linkStore) : now - x.createdAt <= LINK_TTL
       /\ \A x \in Entries(evicted.exp) : x \notin Entries(linkStore)
  /\ op = "prefetched" =>
       /\ \A x \in Entries(videoCache) : now - x.createdAt <= CACHE_TTL
       /\ \A x \in Entries(evicted.exp) : x \notin Entries(videoCache)

(* A prefetch swept an expired entry that lay behind one still in its
   lifetime. *)
C7_Witness ==
  /\ op = "prefetched"
  /\ Len(evicted.exp) > 0
  /\ Len(videoCache) >= 2
  /\ now - videoCache[1].createdAt <= CACHE_TTL

(* C8, as stated: the cache holds at most MAX_CACHE entries. *)
C8_AtMostMaxCache == Len(videoCache) <= MAX_CACHE

(* C9, as stated: no cache entry holds more than CACHE_CHUNK bytes. *)
C9_AtMostChunk == \A x \in Entries(videoCache) : Len(x.buffer) <= CACHE_CHUNK

(* The handler that ran last called prefetch, for this URL and token. *)
PrefetchCalled ==
  \/ (op = "generate" /\ resp.status = 200)
  \/ (op = "embed" /\ resp.status = 200 /\ isGoFile(MapGet(linkStore, resp.id).videoUrl))
CalledWith == MapGet(linkStore, resp.id)
CalledKey == cacheKey(CalledWith.videoUrl)

(* prefetch did nothing / issued its one ranged read for bytes
   [0, CACHE_CHUNK), with the cache as it was. *)
DidNothing == reqs' = {} /\ prefetches' = prefetches /\ videoCache' = videoCache
DidOneRead ==
  /\ reqs' = {[kind |-> "prefetch", url |-> CalledWith'.videoUrl,
               range |-> [s |-> 0, e |-> CACHE_CHUNK - 1],
               cookie |-> CalledWith'.token]}
  /\ BagCardinality(prefetches') = BagCardinality(prefetches) + 1
  /\ BagIn([url |-> CalledWith'.videoUrl, token |-> CalledWith'.token], prefetches')
  /\ videoCache' = videoCache

(* C10, as stated: prefetch does nothing when an entry within its TTL
   exists for the key, and issues one ranged read in every other case, also
   when the only entry for the key is past its TTL. *)
C10_AsStated ==
  [][PrefetchCalled' =>
       IF /\ MapHas(videoCache, CalledKey')
          /\ now - MapGet(videoCache, CalledKey').createdAt <= CACHE_TTL
         THEN DidNothing ELSE DidOneRead]_vars

(* C10, amended: prefetch does nothing when any entry exists for the key,
   expired or not, and issues one ranged read when none exists. *)
C10_SkipsWhenKeyPresent ==
  [][PrefetchCalled' =>
       IF MapHas(videoCache, CalledKey') THEN DidNothing ELSE DidOneRead]_vars

(* prefetch was called for a key whose only entry is past its TTL, and
   issued nothing. *)
C10_Witness ==
  /\ PrefetchCalled
  /\ MapHas(videoCache, CalledKey)
  /\ now - MapGet(videoCache, CalledKey).createdAt > CACHE_TTL
  /\ reqs = {}

(* A prefetch has just completed, and its origin read had failed: a status
   outside 2xx, or no answer at all (network error, timeout). *)
WarmupFailed ==
  /\ op \in {"prefetched", "prefetch failed"}
  /\ ~(resp.upstream >= 200 /\ resp.upstream < 300)

(* C11: a prefetch whose origin read fails leaves the cache and the link
   store as they were, issues no further origin request (no retry) and
   writes no response; the /generate or /e request that started a prefetch
   has its complete 200 response while that prefetch is still awaiting the
   origin. *)
C11_FailedWarmupLeavesNoTrace ==
  /\ [][WarmupFailed' =>
          /\ videoCache' = videoCache
          /\ linkStore' = linkStore
          /\ reqs' = {}
          /\ BagCardinality(prefetches') = BagCardinality(prefetches) - 1
          /\ live' = live /\ streams' = streams
          /\ resp'.status = 0 /\ resp'.body = <<>>]_vars
  /\ []((op \in {"generate", "embed"} /\ reqs # {}) =>
          /\ resp.status = 200 /\ resp.conn = "ended"
          /\ \A r \in reqs : \E t \in BagToSet(prefetches) : t.url = r.url)

(* A prefetch timed out while the cache held an entry of another key, which
   is still there. *)
C11_Witness ==
  /\ WarmupFailed
  /\ resp.upstream = 0
  /\ Len(videoCache) > 0
  /\ prefetches = EmptyBag

(* No entry of the link store has this id. *)
Unregistered(id) == \A i \in 1..Len(linkStore) : linkStore[i].k # id

(* C12: a /v or /e request for an id that is not in the link store gets a
   complete 404 response with no video bytes; the handler issues no origin
   request, starts no prefetch and no upstream read, and leaves the link
   store and the cache as they were. *)
C12_UnknownIdIs404 ==
  [][(op' \in {"play", "embed"} /\ Unregistered(req'.id)) =>
       /\ resp'.status = 404 /\ resp'.conn = "ended"
       /\ resp'.body = <<>> /\ resp'.via = "none"
       /\ reqs' = {}
       /\ prefetches' = prefetches
       /\ live' = live /\ streams' = streams
       /\ linkStore' = linkStore /\ videoCache' = videoCache]_vars

(* A ranged /v request for an unknown id was answered 404 while the store
   held another link and the cache an entry. *)
C12_Witness ==
  /\ op = "play"
  /\ Unregistered(req.id)
  /\ req.range # NoRange
  /\ resp.status = 404
  /\ Len(linkStore) > 0 /\ Len(videoCache) > 0

(* The host is not a subdomain of gofile.io. *)
OutsideFamily(url) ==
  \/ Len(url.host) < 3
  \/ SubSeq(url.host, Len(url.host) - 1, Len(url.host)) # <<"gofile", "io">>

(* C13: a /v request for a registered link whose URL is outside the trusted
   family gets a complete 403 response with no bytes, from the cache or from
   the origin, and issues no origin request, whatever the cache holds for
   its key; no upstream read is ever pending or open for such a URL. *)
C13_UntrustedIs403 ==
  /\ (op = "play" /\ ReqLinked /\ OutsideFamily(ReqEntry.videoUrl)) =>
       /\ resp.status = 403 /\ resp.conn = "ended"
       /\ resp.body = <<>> /\ resp.via = "none"
       /\ reqs = {}
  /\ \A l \in BagToSet(live) : ~OutsideFamily(l.url)
  /\ \A s \in BagToSet(streams) : ~OutsideFamily(s.read.url)

(* A request inside the cached bytes of its key, for an untrusted link, was
   answered 403. *)
C13_Witness ==
  /\ InBounds
  /\ OutsideFamily(ReqEntry.videoUrl)
  /\ Len(ReqBuffer) >= 2
  /\ resp.status = 403

(* C14, as stated: whenever the client of a live-path request is gone, its
   upstream stream is not open, also when the client left while the open of
   the upstream read was pending. *)
C14_NoStreamWithoutClient == \A s \in BagToSet(streams) : s.client = "here"

(* C15: on the live path, a failed open of the upstream read (before any
   header is sent) is answered with a complete error response whose status
   is the origin's when it gave one and 502 otherwise; an error of the
   upstream stream after the headers destroys the client connection; and
   whatever closes an open stream, no error body is written and the response
   does not stay open. *)
C15_UpstreamFailure ==
  /\ []((op = "live" /\ ~(resp.upstream >= 200 /\ resp.upstream < 300)) =>
          /\ resp.status = (IF resp.upstream # 0 THEN resp.upstream ELSE 502)
          /\ resp.text = "Proxy error"
          /\ resp.body = <<>>
          /\ resp.conn = "ended")
  /\ [](op = "stream error" =>
          /\ resp.conn = "destroyed"
          /\ resp.text = ""
          /\ resp.status = resp.upstream)
  /\ [][BagCardinality(streams') < BagCardinality(streams) =>
          /\ resp'.text = ""
          /\ resp'.conn \in {"ended", "destroyed", "closed"}]_vars

(* A stream that had sent the headers of a 206 and one byte of its body broke
   off, and the client connection was destroyed. *)
C15_Witness ==
  /\ op = "stream error"
  /\ resp.status = 206
  /\ resp.crange.s = 1
  /\ resp.body = <<11>>
  /\ resp.conn = "destroyed"

(* The prefetch calls and the upstream reads of the stream environment. *)
StreamTasks == {[url |-> v.videoUrl, token |-> v.token] : v \in EnvStream.videos}
StreamReads == {LiveRequest(v, range) : v \in EnvStream.videos, range \in EnvStream.ranges}

(* Every prefetch that awaits the origin is eventually completed. *)
PrefetchEnds == \A t \in StreamTasks : BagIn(t, prefetches) ~> ~BagIn(t, prefetches)

(* C16, as stated: every call that awaits the origin, a prefetch read or the
   open of an upstream read, eventually comes to an end, whether or not the
   origin ever answers. *)
C16_EveryCallEnds ==
  /\ \A t \in StreamTasks : BagIn(t, prefetches) ~> ~BagIn(t, prefetches)
  /\ \A l \in StreamReads : BagIn(l, live) ~> ~BagIn(l, live)

(* Another link of the store has the URL of the link the last /v request
   resolved to, and the cache entry of its key was read from that URL. *)
Twin ==
  /\ ReqLinked
  /\ \E x \in Entries(linkStore) : x.k # req.id /\ x.videoUrl = ReqEntry.videoUrl
WarmedFromOwnUrl ==
  /\ ReqCached
  /\ MapGet(videoCache, cacheKey(ReqEntry.videoUrl)).src = ReqEntry.videoUrl

(* The cache holds at most one entry read from each URL. *)
OneEntryPerResource ==
  \A i, j \in 1..Len(videoCache) : videoCache[i].src = videoCache[j].src => i = j

(* C17, as stated: when two links have the same URL and the resource has
   been prefetched, an in-bounds range request through either of them is
   served from the cache, and the cache holds one entry for the resource. *)
C17_AsStated ==
  /\ (Twin /\ WarmedFromOwnUrl /\ InBounds) =>
       ExactSlice(ReqBuffer, req.range.s, req.range.e)
  /\ OneEntryPerResource

(* The steps that write to the response of a /v request. *)
PlaybackOps ==
  {"play", "live", "options", "stream data", "stream end", "stream error", "client close"}

(* C18: every response of the /v surface, 404, 403, cache 206, live response
   or proxy error, carries the CORS headers; an OPTIONS request gets an
   empty 204 with them, and its handling reads neither Map, issues no origin
   request and changes nothing. *)
C18_CorsOnEveryResponse ==
  /\ [](op \in PlaybackOps => resp.cors)
  /\ [](op = "options" =>
          /\ resp.status = 204 /\ resp.body = <<>> /\ resp.conn = "ended"
          /\ reqs = {})
  /\ [][op' = "options" =>
          /\ linkStore' = linkStore /\ videoCache' = videoCache
          /\ prefetches' = prefetches /\ live' = live /\ streams' = streams
          /\ resp' = [NoResp EXCEPT !.status = 204, !.cors = TRUE, !.conn = "ended"]]_vars

(* A proxy error that mirrors the origin's 404 carried the headers. *)
C18_Witness ==
  /\ op = "live"
  /\ resp.status = 404 /\ resp.text = "Proxy error"
  /\ resp.cors

(* The prefetch call that completed in this step, and its key. *)
Completed ==
  CHOOSE t \in BagToSet(prefetches) : CopiesIn(t, prefetches') < CopiesIn(t, prefetches)
CompletedKey == cacheKey(Completed.url)

(* C19: two prefetches of one key can both be awaiting the origin; when the
   later one completes it replaces the entry of the earlier one in place:
   the cache never holds two entries of one key, the write removes and
   changes no entry of another key (what goes at that moment is what the
   sweep before the write removes, expired entries and those above
   MAX_CACHE), and a prefetch
   issues one origin read when it starts and none when it completes. *)
C19_OverlapOverwritesInPlace ==
  /\ [](\A i, j \in 1..Len(videoCache) :
          videoCache[i].k = videoCache[j].k => i = j)
  /\ [][op' = "prefetched" =>
          /\ \A i \in 1..Len(pruneCache(videoCache, now)) :
               /\ i <= Len(videoCache')
               /\ IF pruneCache(videoCache, now)[i].k = CompletedKey
                    THEN /\ videoCache'[i].k = CompletedKey
                         /\ videoCache'[i].createdAt = now
                    ELSE videoCache'[i] = pruneCache(videoCache, now)[i]
          /\ MapHas(pruneCache(videoCache, now), CompletedKey) =>
               Len(videoCache') = Len(pruneCache(videoCache, now))]_vars
  /\ [][op' \in {"prefetched", "prefetch failed"} =>
          /\ reqs' = {}
          /\ BagCardinality(prefetches') = BagCardinality(prefetches) - 1]_vars
  /\ [](op \in {"generate", "embed"} => Cardinality(reqs) <= 1)

(* The later of two overlapping prefetches completed after a tick and
   replaced the earlier one's entry (the key was absent when it started and
   present when it wrote), beside an entry of another key. *)
C19_Witness ==
  /\ op = "prefetched"
  /\ Len(videoCache) >= 2
  /\ \E x \in Entries(videoCache) : x.createdAt = now /\ x.firstAt < now
  /\ \E y \in Entries(videoCache) : y.createdAt < now

(* C20, as stated: every origin read issued, by a prefetch or by the live
   path, goes to a URL that passes isGoFile, whichever handler started it,
   and every cache entry was read from such a URL. *)
C20_OnlyTrustedReads ==
  /\ \A r \in reqs : isGoFile(r.url)
  /\ \A t \in BagToSet(prefetches) : isGoFile(t.url)
  /\ \A l \in BagToSet(live) : isGoFile(l.url)
  /\ \A x \in Entries(videoCache) : isGoFile(x.src)

(* The last /v request was answered from the cache. *)
CachePath == op = "play" /\ resp.via = "cache" /\ resp.status = 206

(* The body has a byte, and a Content-Range that is present has its start
   not after its end and spans as many bytes as Content-Length says. *)
WellFormedRange ==
  /\ Len(resp.body) >= 1
  /\ resp.crange # NoCRange =>
       /\ resp.crange.s <= resp.crange.e
       /\ resp.crange.e - resp.crange.s + 1 = resp.clen

(* The Range header has a start after its end / has no start. *)
Reversed == req.range.s >= 0 /\ req.range.e >= 0 /\ req.range.s > req.range.e
SuffixForm == req.range.s = EmptyPart /\ req.range.e >= 0

(* C21, as stated: every 206 from the cache has a non-empty body and a
   well-formed Content-Range, and no request whose Range header is reversed
   or in suffix form is answered from the cache. *)
C21_CacheRangeWellFormed ==
  CachePath => (WellFormedRange /\ ~Reversed /\ ~SuffixForm)

(* The three parts of C21, one by one. *)
C21_NonEmptyPart == CachePath => WellFormedRange
C21_ReversedPart == CachePath => ~Reversed
C21_SuffixPart == CachePath => ~SuffixForm

====
